---------------------------- MODULE Spec2Model ----------------------------
(***************************************************************************)
(* UnicodeConvStd: UTF-16 / UTF-8 conversion helpers built on the Win32    *)
(* transcoding primitives WideCharToMultiByte and MultiByteToWideChar.     *)
(*                                                                         *)
(* The model follows UnicodeConvStd.hpp statement by statement: the empty  *)
(* check, the size_t -> int cast, the measure pass, the error-code read,   *)
(* the allocation and the fill pass are one action each, per thread.       *)
(* The two Win32 primitives are not part of the repository; they are       *)
(* modelled from their documented contract (strict flag, measure mode,     *)
(* fill mode, 0 on failure plus a last-error code) over real code units.   *)
(*                                                                         *)
(* A size_t is kept at its real width as four 16-bit limbs, least          *)
(* significant first, so that values above INT_MAX exist in the model.     *)
(* A view whose length exceeds MaxLen16 / MaxLen8 is one code unit         *)
(* repeated: only that unit is stored, with the view's length.             *)
(***************************************************************************)
EXTENDS Integers, Sequences, FiniteSets, TLC

(***************************************************************************)
(* Bounds of the model.                                                    *)
(***************************************************************************)
MaxLen16 == 3
MaxLen8 == 4

\* UTF-16 code units the inputs are built from: 'C', 'i', U+00A6, U+5B66,
\* and the surrogate pair D85A DF66 of U+26B66.
Units16 == {\H43, \H69, \HA6, \H5B66, \HD85A, \HDF66}

\* UTF-8 bytes the inputs are built from: 'C'; the lead bytes C1 (overlong),
\* C2, E5, ED (leads to an encoded surrogate), F0; the continuation bytes
\* A6 and AD.  C2 A6 = U+00A6, E5 AD A6 = U+5B66, F0 A6 AD A6 = U+26B66.
Bytes8 == {\H43, \HC1, \HC2, \HE5, \HED, \HF0, \HA6, \HAD}

\* Last-error values a thread may hold before a call.
StaleErrors == {0, 5}

Threads == {1, 2}
\* The threads that issue calls in the sequential specification.
SeqThreads == {1}

RECURSIVE SeqsUpTo(_, _)
SeqsUpTo(S, n) ==
    IF n = 0 THEN {<<>>}
    ELSE LET shorter == SeqsUpTo(S, n - 1)
         IN  shorter \cup {Append(s, u) : s \in {x \in shorter : Len(x) = n - 1}, u \in S}

Min(a, b) == IF a < b THEN a ELSE b

(***************************************************************************)
(* size_t and int                                                          *)
(***************************************************************************)
LimbBase == 65536
SizetLimbs == 4

\* std::numeric_limits<int>::max()
NumericLimitsIntMax == 2147483647

\* The size_t holding the non-negative int n.
SizetOfInt(n) == <<n % LimbBase, (n \div LimbBase) % LimbBase, 0, 0>>

RECURSIVE SizetGreaterFrom(_, _, _)
SizetGreaterFrom(a, b, i) ==
    IF i = 0 THEN FALSE
    ELSE IF a[i] # b[i] THEN a[i] > b[i]
    ELSE SizetGreaterFrom(a, b, i - 1)

\* a > b on size_t
SizetGreater(a, b) == SizetGreaterFrom(a, b, SizetLimbs)

\* static_cast<int>(s): the low 32 bits of s, read as two's complement.
StaticCastInt(s) ==
    IF s[2] < LimbBase \div 2 THEN s[2] * LimbBase + s[1]
    ELSE (s[2] - LimbBase) * LimbBase + s[1]

\* A mutant of SafeIntFromSizet: the comparison is >= , so INT_MAX itself
\* is refused.
SafeIntFromSizet_OffByOne(s) ==
    IF SizetGreater(s, SizetOfInt(NumericLimitsIntMax)) \/ s = SizetOfInt(NumericLimitsIntMax)
    THEN [threw |-> TRUE, value |-> 0]
    ELSE [threw |-> FALSE, value |-> StaticCastInt(s)]

\* A mutant of SafeIntFromSizet: no range check, the cast wraps.
SafeIntFromSizet_Unchecked(s) == [threw |-> FALSE, value |-> StaticCastInt(s)]

\* detail::SafeIntFromSizet: throws std::overflow_error when s > INT_MAX,
\* else returns static_cast<int>(s).
SafeIntFromSizet(s) ==
    IF SizetGreater(s, SizetOfInt(NumericLimitsIntMax))
    THEN [threw |-> TRUE, value |-> 0]
    ELSE [threw |-> FALSE, value |-> StaticCastInt(s)]

(***************************************************************************)
(* The transcoding primitives (Win32, CP_UTF8)                             *)
(***************************************************************************)
ERROR_INVALID_PARAMETER == 87
ERROR_INSUFFICIENT_BUFFER == 122
ERROR_NO_UNICODE_TRANSLATION == 1113

IsHighSurrogate(u) == u >= \HD800 /\ u <= \HDBFF
IsLowSurrogate(u) == u >= \HDC00 /\ u <= \HDFFF
IsSurrogate(u) == u >= \HD800 /\ u <= \HDFFF
IsContinuation(b) == b >= \H80 /\ b <= \HBF

ReplacementCharacter == \HFFFD

\* The code point of a surrogate pair.
CodePointOfPair(hi, lo) == \H10000 + (hi - \HD800) * 1024 + (lo - \HDC00)

\* The UTF-8 bytes of one code point.
Utf8Bytes(cp) ==
    IF cp < \H80 THEN <<cp>>
    ELSE IF cp < \H800 THEN <<\HC0 + (cp \div 64), \H80 + (cp % 64)>>
    ELSE IF cp < \H10000
         THEN <<\HE0 + (cp \div 4096), \H80 + ((cp \div 64) % 64), \H80 + (cp % 64)>>
    ELSE <<\HF0 + (cp \div 262144), \H80 + ((cp \div 4096) % 64),
           \H80 + ((cp \div 64) % 64), \H80 + (cp % 64)>>

\* The UTF-16 code units of one code point.
Utf16Units(cp) ==
    IF cp < \H10000 THEN <<cp>>
    ELSE <<\HD800 + ((cp - \H10000) \div 1024), \HDC00 + ((cp - \H10000) % 1024)>>

\* UTF-16 -> UTF-8 from position i on.  An unpaired surrogate fails the
\* conversion when strict, and becomes U+FFFD otherwise.
RECURSIVE EncodeFrom(_, _, _)
EncodeFrom(s, i, strict) ==
    IF i > Len(s) THEN [ok |-> TRUE, out |-> <<>>]
    ELSE IF IsHighSurrogate(s[i]) /\ i < Len(s) /\ IsLowSurrogate(s[i + 1])
    THEN LET rest == EncodeFrom(s, i + 2, strict)
         IN  [ok |-> rest.ok, out |-> Utf8Bytes(CodePointOfPair(s[i], s[i + 1])) \o rest.out]
    ELSE IF IsSurrogate(s[i])
    THEN IF strict THEN [ok |-> FALSE, out |-> <<>>]
         ELSE LET rest == EncodeFrom(s, i + 1, strict)
              IN  [ok |-> rest.ok, out |-> Utf8Bytes(ReplacementCharacter) \o rest.out]
    ELSE LET rest == EncodeFrom(s, i + 1, strict)
         IN  [ok |-> rest.ok, out |-> Utf8Bytes(s[i]) \o rest.out]

\* The number of bytes the lead byte b announces (0: b is no lead byte).
SequenceLength(b) ==
    IF b < \H80 THEN 1
    ELSE IF b >= \HC0 /\ b <= \HDF THEN 2
    ELSE IF b >= \HE0 /\ b <= \HEF THEN 3
    ELSE IF b >= \HF0 /\ b <= \HF7 THEN 4
    ELSE 0

\* The smallest code point that needs n bytes.
MinCodePoint(n) ==
    IF n = 1 THEN 0 ELSE IF n = 2 THEN \H80 ELSE IF n = 3 THEN \H800 ELSE \H10000

\* The payload bits of the n-byte sequence at position i.
DecodedCodePoint(s, i, n) ==
    IF n = 1 THEN s[i]
    ELSE IF n = 2 THEN (s[i] - \HC0) * 64 + (s[i + 1] - \H80)
    ELSE IF n = 3
         THEN (s[i] - \HE0) * 4096 + (s[i + 1] - \H80) * 64 + (s[i + 2] - \H80)
    ELSE (s[i] - \HF0) * 262144 + (s[i + 1] - \H80) * 4096
         + (s[i + 2] - \H80) * 64 + (s[i + 3] - \H80)

\* Whether a valid n-byte sequence starts at position i: n announced bytes
\* are present, the trailing ones are continuation bytes, and the code point
\* is in range, not overlong and no surrogate.
ValidSequenceAt(s, i, n) ==
    /\ n > 0
    /\ i + n - 1 <= Len(s)
    /\ \A k \in 1..(n - 1) : IsContinuation(s[i + k])
    /\ LET cp == DecodedCodePoint(s, i, n)
       IN  /\ cp >= MinCodePoint(n)
           /\ cp <= \H10FFFF
           /\ ~IsSurrogate(cp)

\* UTF-8 -> UTF-16 from position i on.  A byte that starts no valid
\* sequence fails the conversion when strict, and becomes U+FFFD otherwise.
RECURSIVE DecodeFrom(_, _, _)
DecodeFrom(s, i, strict) ==
    IF i > Len(s) THEN [ok |-> TRUE, out |-> <<>>]
    ELSE LET n == SequenceLength(s[i])
         IN  IF ValidSequenceAt(s, i, n)
             THEN LET rest == DecodeFrom(s, i + n, strict)
                  IN  [ok |-> rest.ok, out |-> Utf16Units(DecodedCodePoint(s, i, n)) \o rest.out]
             ELSE IF strict THEN [ok |-> FALSE, out |-> <<>>]
             ELSE LET rest == DecodeFrom(s, i + 1, strict)
                  IN  [ok |-> rest.ok, out |-> <<ReplacementCharacter>> \o rest.out]

\* The shared protocol of both primitives, given the transcoding conv of the
\* cch source units: cch = 0 is an invalid parameter; malformed input under
\* the strict flag has no translation; with capacity 0 the required size is
\* returned and nothing is written; otherwise the output is written to the
\* front of dst, or the call fails when dst is too small.  ret = 0 exactly
\* when the call failed, and only then is the last error set.
Transcode(conv, cch, dst, capacity) ==
    IF cch < 1
    THEN [ret |-> 0, failed |-> TRUE, err |-> ERROR_INVALID_PARAMETER, out |-> dst]
    ELSE IF ~conv.ok
    THEN [ret |-> 0, failed |-> TRUE, err |-> ERROR_NO_UNICODE_TRANSLATION, out |-> dst]
    ELSE IF capacity = 0
    THEN [ret |-> Len(conv.out), failed |-> FALSE, err |-> 0, out |-> dst]
    ELSE IF Len(conv.out) > capacity
    THEN [ret |-> 0, failed |-> TRUE, err |-> ERROR_INSUFFICIENT_BUFFER, out |-> dst]
    ELSE [ret |-> Len(conv.out), failed |-> FALSE, err |-> 0,
          out |-> conv.out \o SubSeq(dst, Len(conv.out) + 1, Len(dst))]

\* ::WideCharToMultiByte(CP_UTF8, flags, src, cch, dst, capacity, nullptr, nullptr)
WideCharToMultiByte(flags, src, cch, dst, capacity) ==
    Transcode(EncodeFrom(SubSeq(src, 1, Min(cch, Len(src))), 1,
                         "WC_ERR_INVALID_CHARS" \in flags),
              cch, dst, capacity)

\* ::MultiByteToWideChar(CP_UTF8, flags, src, cch, dst, capacity)
MultiByteToWideChar(flags, src, cch, dst, capacity) ==
    Transcode(DecodeFrom(SubSeq(src, 1, Min(cch, Len(src))), 1,
                         "MB_ERR_INVALID_CHARS" \in flags),
              cch, dst, capacity)

(***************************************************************************)
(* State                                                                   *)
(***************************************************************************)
VARIABLES
    op,          \* the function each thread is in ("none" when in none)
    pc,          \* the statement each thread executes next
    utf16,       \* Utf8FromUtf16: the units the source view shows; Utf16FromUtf8: the result string
    utf8,        \* Utf16FromUtf8: the bytes the source view shows; Utf8FromUtf16: the result string
    viewLength,  \* length() of the source view, a size_t (SafeIntFromSizet: its argument s)
    utf16Length, \* the local utf16Length
    utf8Length,  \* the local utf8Length
    result,      \* the local result: what the fill pass returned
    lastError,   \* the thread's last-error code (::GetLastError)
    outcome,     \* how the call ended: the returned value or the exception
    trace,       \* the cast, primitive calls and allocation of the call, in order
    mutated,     \* whether the source buffer was written between the two passes
    input,       \* the units the source view showed when the call began
    origin,      \* for a call on the previous call's result: that call's input
    interleaved  \* whether a statement of one call ran between two of another's

vars == <<op, pc, utf16, utf8, viewLength, utf16Length, utf8Length, result,
          lastError, outcome, trace, mutated, input, origin, interleaved>>

(***************************************************************************)
(* Inputs                                                                  *)
(***************************************************************************)
\* Lengths above INT_MAX: INT_MAX + 1, 2^32 and SIZE_MAX.
HugeLengths == {<<0, 32768, 0, 0>>, <<0, 0, 1, 0>>, <<65535, 65535, 65535, 65535>>}

\* Arguments tried on SafeIntFromSizet alone: 0, 1, INT_MAX - 1, INT_MAX,
\* and the lengths above.
SampleLengths ==
    {<<0, 0, 0, 0>>, <<1, 0, 0, 0>>, <<65534, 32767, 0, 0>>, <<65535, 32767, 0, 0>>,
     <<65535, 65535, 0, 0>>} \cup HugeLengths

\* The unit a view longer than INT_MAX repeats.
HugeUnits16 == {\H43, \HD85A}
HugeUnits8 == {\H43, \HA6}

Views16 ==
    {[data |-> s, length |-> SizetOfInt(Len(s))] : s \in SeqsUpTo(Units16, MaxLen16)}
    \cup {[data |-> <<u>>, length |-> n] : u \in HugeUnits16, n \in HugeLengths}

Views8 ==
    {[data |-> s, length |-> SizetOfInt(Len(s))] : s \in SeqsUpTo(Bytes8, MaxLen8)}
    \cup {[data |-> <<u>>, length |-> n] : u \in HugeUnits8, n \in HugeLengths}

(***************************************************************************)
(* Values                                                                  *)
(***************************************************************************)
NoOutcome ==
    [kind |-> "none", str |-> <<>>, int |-> 0, errorCode |-> 0,
     conversionType |-> "none", message |-> ""]

Returned(kind, str) == [NoOutcome EXCEPT !.kind = kind, !.str = str]

\* throw std::overflow_error(...)
OverflowError ==
    [NoOutcome EXCEPT !.kind = "overflow_error",
        !.message = "Input size_t value is too large: size_t-length doesn't fit into an int."]

\* UnicodeConversionException(errorCode, conversionType, message)
UnicodeConversionException(errorCode, conversionType, message) ==
    [NoOutcome EXCEPT !.kind = "UnicodeConversionException", !.errorCode = errorCode,
        !.conversionType = conversionType, !.message = message]

NoOrigin == [set |-> FALSE, op |-> "none", input |-> <<>>, length |-> <<0, 0, 0, 0>>,
             mutated |-> FALSE]

CastEvent == [event |-> "SafeIntFromSizet", flags |-> {}, source |-> 0, cch |-> 0,
              dst |-> FALSE, capacity |-> 0, ret |-> 0, err |-> 0]

AllocateEvent(size) == [CastEvent EXCEPT !.event = "allocate", !.capacity = size]

\* One call of the primitive: its flags, source, source length, whether a
\* destination buffer was passed, the capacity, what it returned, and the
\* last-error code it set (0: it set none).
PrimitiveEvent(a, r) ==
    [event |-> "primitive", flags |-> a.flags, source |-> a.source, cch |-> a.cch,
     dst |-> a.dst, capacity |-> a.capacity, ret |-> r.ret, err |-> r.err]

\* std::string(n, '\0') / std::wstring(n, L'\0')
NewString(n) == [i \in 1..n |-> 0]

Init ==
    /\ op = [t \in Threads |-> "none"]
    /\ pc = [t \in Threads |-> "idle"]
    /\ utf16 = [t \in Threads |-> <<>>]
    /\ utf8 = [t \in Threads |-> <<>>]
    /\ viewLength = [t \in Threads |-> <<0, 0, 0, 0>>]
    /\ utf16Length = [t \in Threads |-> 0]
    /\ utf8Length = [t \in Threads |-> 0]
    /\ result = [t \in Threads |-> 0]
    /\ lastError \in [Threads -> StaleErrors]
    /\ \A t \in Threads \ SeqThreads : lastError[t] = 0
    /\ outcome = [t \in Threads |-> NoOutcome]
    /\ trace = [t \in Threads |-> <<>>]
    /\ mutated = [t \in Threads |-> FALSE]
    /\ input = [t \in Threads |-> <<>>]
    /\ origin = [t \in Threads |-> NoOrigin]
    /\ interleaved = FALSE

\* The thread has executed a statement of its call and has another to execute.
BetweenStatements(t) ==
    pc[t] \in {"measure", "measure_throw", "allocate", "fill", "fill_throw"}

\* Thread t executes a statement of its call: it falls between two statements
\* of every call that is between statements.
Statement(t) ==
    interleaved' = (interleaved \/ \E x \in Threads \ {t} : BetweenStatements(x))

\* A call begins: the locals are fresh, the thread's last error is kept.
Enter(t, name, length, data, from) ==
    /\ op' = [op EXCEPT ![t] = name]
    /\ pc' = [pc EXCEPT ![t] = "empty"]
    /\ viewLength' = [viewLength EXCEPT ![t] = length]
    /\ utf16Length' = [utf16Length EXCEPT ![t] = 0]
    /\ utf8Length' = [utf8Length EXCEPT ![t] = 0]
    /\ result' = [result EXCEPT ![t] = 0]
    /\ outcome' = [outcome EXCEPT ![t] = NoOutcome]
    /\ trace' = [trace EXCEPT ![t] = <<>>]
    /\ mutated' = [mutated EXCEPT ![t] = FALSE]
    /\ input' = [input EXCEPT ![t] = data]
    /\ origin' = [origin EXCEPT ![t] = from]
    /\ UNCHANGED lastError
    /\ UNCHANGED interleaved

(***************************************************************************)
(* detail::SafeIntFromSizet called on its own                              *)
(***************************************************************************)
Call_SafeIntFromSizet(t, s) ==
    /\ pc[t] = "idle"
    /\ op' = [op EXCEPT ![t] = "SafeIntFromSizet"]
    /\ viewLength' = [viewLength EXCEPT ![t] = s]
    /\ outcome' = [outcome EXCEPT ![t] =
                      IF SafeIntFromSizet(s).threw THEN OverflowError
                      ELSE [NoOutcome EXCEPT !.kind = "int", !.int = SafeIntFromSizet(s).value]]
    /\ pc' = [pc EXCEPT ![t] = "done"]
    /\ UNCHANGED <<utf16, utf8, utf16Length, utf8Length, result, lastError, trace,
                   mutated, input, origin, interleaved>>

\* A mutant of Empty: the empty input takes the general path.
Empty_Never(length) == FALSE

\* std::basic_string_view::empty()
Empty(length) == length = SizetOfInt(0)

(***************************************************************************)
(* Utf8FromUtf16                                                           *)
(***************************************************************************)
\* A mutant of kFlags: the strict flag is not requested.
Utf8FromUtf16_kFlags_Lenient == {}

\* constexpr DWORD kFlags
Utf8FromUtf16_kFlags == {"WC_ERR_INVALID_CHARS"}

\* The caller passes a view.
Call_Utf8FromUtf16(t, view) ==
    /\ pc[t] = "idle"
    /\ Enter(t, "Utf8FromUtf16", view.length, view.data, NoOrigin)
    /\ utf16' = [utf16 EXCEPT ![t] = view.data]
    /\ utf8' = [utf8 EXCEPT ![t] = <<>>]

\* The caller passes the string the previous Utf16FromUtf8 call returned.
Chain_Utf8FromUtf16(t) ==
    /\ pc[t] = "done"
    /\ op[t] = "Utf16FromUtf8"
    /\ outcome[t].kind = "wstring"
    /\ ~origin[t].set
    /\ Enter(t, "Utf8FromUtf16", SizetOfInt(Len(outcome[t].str)), outcome[t].str,
             [set |-> TRUE, op |-> op[t], input |-> input[t],
              length |-> viewLength[t], mutated |-> mutated[t]])
    /\ utf16' = [utf16 EXCEPT ![t] = outcome[t].str]
    /\ utf8' = [utf8 EXCEPT ![t] = <<>>]

\* if (utf16.empty()) return {};
Utf8FromUtf16_Empty(t) ==
    /\ op[t] = "Utf8FromUtf16"
    /\ pc[t] = "empty"
    /\ IF Empty(viewLength[t])
       THEN /\ outcome' = [outcome EXCEPT ![t] = Returned("string", <<>>)]
            /\ pc' = [pc EXCEPT ![t] = "done"]
       ELSE /\ pc' = [pc EXCEPT ![t] = "cast"]
            /\ UNCHANGED outcome
    /\ UNCHANGED <<op, utf16, utf8, viewLength, utf16Length, utf8Length, result,
                   lastError, trace, mutated, input, origin>>
    /\ Statement(t)

\* const int utf16Length = detail::SafeIntFromSizet(utf16.length());
Utf8FromUtf16_Cast(t) ==
    /\ op[t] = "Utf8FromUtf16"
    /\ pc[t] = "cast"
    /\ trace' = [trace EXCEPT ![t] = Append(@, CastEvent)]
    /\ IF SafeIntFromSizet(viewLength[t]).threw
       THEN /\ outcome' = [outcome EXCEPT ![t] = OverflowError]
            /\ pc' = [pc EXCEPT ![t] = "done"]
            /\ UNCHANGED utf16Length
       ELSE /\ utf16Length' = [utf16Length EXCEPT ![t] = SafeIntFromSizet(viewLength[t]).value]
            /\ pc' = [pc EXCEPT ![t] = "measure"]
            /\ UNCHANGED outcome
    /\ UNCHANGED <<op, utf16, utf8, viewLength, utf8Length, result, lastError,
                   mutated, input, origin>>
    /\ Statement(t)

\* The arguments of the measure pass: no destination, capacity 0.
Utf8FromUtf16_MeasureCall(t) ==
    [flags |-> Utf8FromUtf16_kFlags, source |-> t, cch |-> utf16Length[t],
     dst |-> FALSE, capacity |-> 0]

\* const int utf8Length = ::WideCharToMultiByte(..., nullptr, 0); if (utf8Length == 0) ...
\* The measured length kept in one variable all calls share (a static local).
Utf8FromUtf16_Measure_Static(t) ==
    /\ op[t] = "Utf8FromUtf16"
    /\ pc[t] = "measure"
    /\ LET a == Utf8FromUtf16_MeasureCall(t)
           r == WideCharToMultiByte(a.flags, utf16[a.source], a.cch, <<>>, a.capacity)
       IN  /\ utf8Length' = [x \in Threads |-> r.ret]
           /\ lastError' = [lastError EXCEPT ![t] = IF r.failed THEN r.err ELSE @]
           /\ trace' = [trace EXCEPT ![t] =
                  Append(@, PrimitiveEvent(a, r))]
           /\ pc' = [pc EXCEPT ![t] = IF r.ret = 0 THEN "measure_throw" ELSE "allocate"]
    /\ UNCHANGED <<op, utf16, utf8, viewLength, utf16Length, result, outcome,
                   mutated, input, origin>>
    /\ Statement(t)

Utf8FromUtf16_Measure(t) ==
    /\ op[t] = "Utf8FromUtf16"
    /\ pc[t] = "measure"
    /\ LET a == Utf8FromUtf16_MeasureCall(t)
           r == WideCharToMultiByte(a.flags, utf16[a.source], a.cch, <<>>, a.capacity)
       IN  /\ utf8Length' = [utf8Length EXCEPT ![t] = r.ret]
           /\ lastError' = [lastError EXCEPT ![t] = IF r.failed THEN r.err ELSE @]
           /\ trace' = [trace EXCEPT ![t] =
                  Append(@, PrimitiveEvent(a, r))]
           /\ pc' = [pc EXCEPT ![t] = IF r.ret = 0 THEN "measure_throw" ELSE "allocate"]
    /\ UNCHANGED <<op, utf16, utf8, viewLength, utf16Length, result, outcome,
                   mutated, input, origin>>
    /\ Statement(t)

\* The exception of a failed measure pass.
Utf8FromUtf16_MeasureException(errorCode) ==
    UnicodeConversionException(errorCode, "ConversionFromUtf16ToUtf8",
        "Can't get result UTF-8 string length (WideCharToMultiByte failed).")

\* const DWORD errorCode = ::GetLastError(); throw UnicodeConversionException(...);
Utf8FromUtf16_MeasureThrow(t) ==
    /\ op[t] = "Utf8FromUtf16"
    /\ pc[t] = "measure_throw"
    /\ outcome' = [outcome EXCEPT ![t] = Utf8FromUtf16_MeasureException(lastError[t])]
    /\ pc' = [pc EXCEPT ![t] = "done"]
    /\ UNCHANGED <<op, utf16, utf8, viewLength, utf16Length, utf8Length, result,
                   lastError, trace, mutated, input, origin>>
    /\ Statement(t)

\* A mutant of the allocation: room for a terminator is added.
Utf8FromUtf16_AllocateSize_PlusOne(t) == utf8Length[t] + 1

\* The size of the destination string.
Utf8FromUtf16_AllocateSize(t) == utf8Length[t]

\* utf8(utf8Length, '\0');
Utf8FromUtf16_Allocate(t) ==
    /\ op[t] = "Utf8FromUtf16"
    /\ pc[t] = "allocate"
    /\ utf8' = [utf8 EXCEPT ![t] = NewString(Utf8FromUtf16_AllocateSize(t))]
    /\ trace' = [trace EXCEPT ![t] = Append(@, AllocateEvent(Utf8FromUtf16_AllocateSize(t)))]
    /\ pc' = [pc EXCEPT ![t] = "fill"]
    /\ UNCHANGED <<op, utf16, viewLength, utf16Length, utf8Length, result,
                   lastError, outcome, mutated, input, origin>>
    /\ Statement(t)

\* The source buffer is only borrowed: another owner may write one unit of
\* it between the two passes.
Utf8FromUtf16_SourceWritten(t, i, u) ==
    /\ op[t] = "Utf8FromUtf16"
    /\ pc[t] = "fill"
    /\ ~mutated[t]
    /\ i \in 1..Len(utf16[t])
    /\ u # utf16[t][i]
    /\ utf16' = [utf16 EXCEPT ![t][i] = u]
    /\ mutated' = [mutated EXCEPT ![t] = TRUE]
    /\ UNCHANGED <<op, pc, utf8, viewLength, utf16Length, utf8Length, result,
                   lastError, outcome, trace, input, origin>>
    /\ UNCHANGED interleaved

\* A mutant of the fill pass: the last source unit is left out.
Utf8FromUtf16_FillCall_Short(t) ==
    [flags |-> Utf8FromUtf16_kFlags, source |-> t, cch |-> utf16Length[t] - 1,
     dst |-> TRUE, capacity |-> utf8Length[t]]

\* The arguments of the fill pass: the destination buffer and its size.
Utf8FromUtf16_FillCall(t) ==
    [flags |-> Utf8FromUtf16_kFlags, source |-> t, cch |-> utf16Length[t],
     dst |-> TRUE, capacity |-> utf8Length[t]]

\* int result = ::WideCharToMultiByte(..., buffer, utf8Length); if (result == 0) ...; return utf8;
Utf8FromUtf16_Fill(t) ==
    /\ op[t] = "Utf8FromUtf16"
    /\ pc[t] = "fill"
    /\ LET a == Utf8FromUtf16_FillCall(t)
           r == WideCharToMultiByte(a.flags, utf16[a.source], a.cch, utf8[t], a.capacity)
       IN  /\ utf8' = [utf8 EXCEPT ![t] = r.out]
           /\ result' = [result EXCEPT ![t] = r.ret]
           /\ lastError' = [lastError EXCEPT ![t] = IF r.failed THEN r.err ELSE @]
           /\ trace' = [trace EXCEPT ![t] =
                  Append(@, PrimitiveEvent(a, r))]
           /\ IF r.ret = 0
              THEN /\ pc' = [pc EXCEPT ![t] = "fill_throw"]
                   /\ UNCHANGED outcome
              ELSE /\ pc' = [pc EXCEPT ![t] = "done"]
                   /\ outcome' = [outcome EXCEPT ![t] = Returned("string", r.out)]
    /\ UNCHANGED <<op, utf16, viewLength, utf16Length, utf8Length, mutated, input, origin>>
    /\ Statement(t)

\* A mutant of the fill pass's exception: the other function's direction.
Utf8FromUtf16_FillException_WrongType(errorCode) ==
    UnicodeConversionException(errorCode, "ConversionFromUtf8ToUtf16",
        "Can't convert from UTF-16 to UTF-8 string (WideCharToMultiByte failed).")

\* The exception of a failed fill pass.
Utf8FromUtf16_FillException(errorCode) ==
    UnicodeConversionException(errorCode, "ConversionFromUtf16ToUtf8",
        "Can't convert from UTF-16 to UTF-8 string (WideCharToMultiByte failed).")

\* const DWORD errorCode = ::GetLastError(); throw UnicodeConversionException(...);
Utf8FromUtf16_FillThrow(t) ==
    /\ op[t] = "Utf8FromUtf16"
    /\ pc[t] = "fill_throw"
    /\ outcome' = [outcome EXCEPT ![t] = Utf8FromUtf16_FillException(lastError[t])]
    /\ pc' = [pc EXCEPT ![t] = "done"]
    /\ UNCHANGED <<op, utf16, utf8, viewLength, utf16Length, utf8Length, result,
                   lastError, trace, mutated, input, origin>>
    /\ Statement(t)

Utf8FromUtf16_Step(t) ==
    \/ pc[t] = "idle" /\ \E view \in Views16 : Call_Utf8FromUtf16(t, view)
    \/ Chain_Utf8FromUtf16(t)
    \/ Utf8FromUtf16_Empty(t)
    \/ Utf8FromUtf16_Cast(t)
    \/ Utf8FromUtf16_Measure(t)
    \/ Utf8FromUtf16_MeasureThrow(t)
    \/ Utf8FromUtf16_Allocate(t)
    \/ /\ op[t] = "Utf8FromUtf16" /\ pc[t] = "fill"
       /\ \E i \in 1..Len(utf16[t]), u \in Units16 : Utf8FromUtf16_SourceWritten(t, i, u)
    \/ Utf8FromUtf16_Fill(t)
    \/ Utf8FromUtf16_FillThrow(t)

(***************************************************************************)
(* Utf16FromUtf8                                                           *)
(***************************************************************************)
\* A mutant of kFlags: the strict flag is not requested.
Utf16FromUtf8_kFlags_Lenient == {}

\* constexpr DWORD kFlags
Utf16FromUtf8_kFlags == {"MB_ERR_INVALID_CHARS"}

\* The caller passes a view.
Call_Utf16FromUtf8(t, view) ==
    /\ pc[t] = "idle"
    /\ Enter(t, "Utf16FromUtf8", view.length, view.data, NoOrigin)
    /\ utf8' = [utf8 EXCEPT ![t] = view.data]
    /\ utf16' = [utf16 EXCEPT ![t] = <<>>]

\* The caller passes the string the previous Utf8FromUtf16 call returned.
Chain_Utf16FromUtf8(t) ==
    /\ pc[t] = "done"
    /\ op[t] = "Utf8FromUtf16"
    /\ outcome[t].kind = "string"
    /\ ~origin[t].set
    /\ Enter(t, "Utf16FromUtf8", SizetOfInt(Len(outcome[t].str)), outcome[t].str,
             [set |-> TRUE, op |-> op[t], input |-> input[t],
              length |-> viewLength[t], mutated |-> mutated[t]])
    /\ utf8' = [utf8 EXCEPT ![t] = outcome[t].str]
    /\ utf16' = [utf16 EXCEPT ![t] = <<>>]

\* if (utf8.empty()) return {};
Utf16FromUtf8_Empty(t) ==
    /\ op[t] = "Utf16FromUtf8"
    /\ pc[t] = "empty"
    /\ IF Empty(viewLength[t])
       THEN /\ outcome' = [outcome EXCEPT ![t] = Returned("wstring", <<>>)]
            /\ pc' = [pc EXCEPT ![t] = "done"]
       ELSE /\ pc' = [pc EXCEPT ![t] = "cast"]
            /\ UNCHANGED outcome
    /\ UNCHANGED <<op, utf16, utf8, viewLength, utf16Length, utf8Length, result,
                   lastError, trace, mutated, input, origin>>
    /\ Statement(t)

\* const int utf8Length = detail::SafeIntFromSizet(utf8.length());
Utf16FromUtf8_Cast(t) ==
    /\ op[t] = "Utf16FromUtf8"
    /\ pc[t] = "cast"
    /\ trace' = [trace EXCEPT ![t] = Append(@, CastEvent)]
    /\ IF SafeIntFromSizet(viewLength[t]).threw
       THEN /\ outcome' = [outcome EXCEPT ![t] = OverflowError]
            /\ pc' = [pc EXCEPT ![t] = "done"]
            /\ UNCHANGED utf8Length
       ELSE /\ utf8Length' = [utf8Length EXCEPT ![t] = SafeIntFromSizet(viewLength[t]).value]
            /\ pc' = [pc EXCEPT ![t] = "measure"]
            /\ UNCHANGED outcome
    /\ UNCHANGED <<op, utf16, utf8, viewLength, utf16Length, result, lastError,
                   mutated, input, origin>>
    /\ Statement(t)

\* The arguments of the measure pass: no destination, capacity 0.
Utf16FromUtf8_MeasureCall(t) ==
    [flags |-> Utf16FromUtf8_kFlags, source |-> t, cch |-> utf8Length[t],
     dst |-> FALSE, capacity |-> 0]

\* const int utf16Length = ::MultiByteToWideChar(..., nullptr, 0); if (utf16Length == 0) ...
Utf16FromUtf8_Measure(t) ==
    /\ op[t] = "Utf16FromUtf8"
    /\ pc[t] = "measure"
    /\ LET a == Utf16FromUtf8_MeasureCall(t)
           r == MultiByteToWideChar(a.flags, utf8[a.source], a.cch, <<>>, a.capacity)
       IN  /\ utf16Length' = [utf16Length EXCEPT ![t] = r.ret]
           /\ lastError' = [lastError EXCEPT ![t] = IF r.failed THEN r.err ELSE @]
           /\ trace' = [trace EXCEPT ![t] =
                  Append(@, PrimitiveEvent(a, r))]
           /\ pc' = [pc EXCEPT ![t] = IF r.ret = 0 THEN "measure_throw" ELSE "allocate"]
    /\ UNCHANGED <<op, utf16, utf8, viewLength, utf8Length, result, outcome,
                   mutated, input, origin>>
    /\ Statement(t)

\* The exception of a failed measure pass.
Utf16FromUtf8_MeasureException(errorCode) ==
    UnicodeConversionException(errorCode, "ConversionFromUtf8ToUtf16",
        "Can't get result UTF-16 string length (MultiByteToWideChar failed).")

\* const DWORD errorCode = ::GetLastError(); throw UnicodeConversionException(...);
Utf16FromUtf8_MeasureThrow(t) ==
    /\ op[t] = "Utf16FromUtf8"
    /\ pc[t] = "measure_throw"
    /\ outcome' = [outcome EXCEPT ![t] = Utf16FromUtf8_MeasureException(lastError[t])]
    /\ pc' = [pc EXCEPT ![t] = "done"]
    /\ UNCHANGED <<op, utf16, utf8, viewLength, utf16Length, utf8Length, result,
                   lastError, trace, mutated, input, origin>>
    /\ Statement(t)

\* A mutant of the allocation: room for a terminator is added.
Utf16FromUtf8_AllocateSize_PlusOne(t) == utf16Length[t] + 1

\* The size of the destination string.
Utf16FromUtf8_AllocateSize(t) == utf16Length[t]

\* utf16(utf16Length, '\0');
Utf16FromUtf8_Allocate(t) ==
    /\ op[t] = "Utf16FromUtf8"
    /\ pc[t] = "allocate"
    /\ utf16' = [utf16 EXCEPT ![t] = NewString(Utf16FromUtf8_AllocateSize(t))]
    /\ trace' = [trace EXCEPT ![t] = Append(@, AllocateEvent(Utf16FromUtf8_AllocateSize(t)))]
    /\ pc' = [pc EXCEPT ![t] = "fill"]
    /\ UNCHANGED <<op, utf8, viewLength, utf16Length, utf8Length, result,
                   lastError, outcome, mutated, input, origin>>
    /\ Statement(t)

\* The source buffer is only borrowed: another owner may write one unit of
\* it between the two passes.
Utf16FromUtf8_SourceWritten(t, i, u) ==
    /\ op[t] = "Utf16FromUtf8"
    /\ pc[t] = "fill"
    /\ ~mutated[t]
    /\ i \in 1..Len(utf8[t])
    /\ u # utf8[t][i]
    /\ utf8' = [utf8 EXCEPT ![t][i] = u]
    /\ mutated' = [mutated EXCEPT ![t] = TRUE]
    /\ UNCHANGED <<op, pc, utf16, viewLength, utf16Length, utf8Length, result,
                   lastError, outcome, trace, input, origin>>
    /\ UNCHANGED interleaved

\* A mutant of the fill pass: the last source unit is left out.
Utf16FromUtf8_FillCall_Short(t) ==
    [flags |-> Utf16FromUtf8_kFlags, source |-> t, cch |-> utf8Length[t] - 1,
     dst |-> TRUE, capacity |-> utf16Length[t]]

\* The arguments of the fill pass: the destination buffer and its size.
Utf16FromUtf8_FillCall(t) ==
    [flags |-> Utf16FromUtf8_kFlags, source |-> t, cch |-> utf8Length[t],
     dst |-> TRUE, capacity |-> utf16Length[t]]

\* int result = ::MultiByteToWideChar(..., buffer, utf16Length); if (result == 0) ...; return utf16;
\* The result string cut to the count the fill pass reported (utf16.resize(result)).
Utf16FromUtf8_Fill_Resized(t) ==
    /\ op[t] = "Utf16FromUtf8"
    /\ pc[t] = "fill"
    /\ LET a == Utf16FromUtf8_FillCall(t)
           r == MultiByteToWideChar(a.flags, utf8[a.source], a.cch, utf16[t], a.capacity)
       IN  /\ utf16' = [utf16 EXCEPT ![t] = r.out]
           /\ result' = [result EXCEPT ![t] = r.ret]
           /\ lastError' = [lastError EXCEPT ![t] = IF r.failed THEN r.err ELSE @]
           /\ trace' = [trace EXCEPT ![t] =
                  Append(@, PrimitiveEvent(a, r))]
           /\ IF r.ret = 0
              THEN /\ pc' = [pc EXCEPT ![t] = "fill_throw"]
                   /\ UNCHANGED outcome
              ELSE /\ pc' = [pc EXCEPT ![t] = "done"]
                   /\ outcome' = [outcome EXCEPT ![t] = Returned("wstring", SubSeq(r.out, 1, r.ret))]
    /\ UNCHANGED <<op, utf8, viewLength, utf16Length, utf8Length, mutated, input, origin>>
    /\ Statement(t)

Utf16FromUtf8_Fill(t) ==
    /\ op[t] = "Utf16FromUtf8"
    /\ pc[t] = "fill"
    /\ LET a == Utf16FromUtf8_FillCall(t)
           r == MultiByteToWideChar(a.flags, utf8[a.source], a.cch, utf16[t], a.capacity)
       IN  /\ utf16' = [utf16 EXCEPT ![t] = r.out]
           /\ result' = [result EXCEPT ![t] = r.ret]
           /\ lastError' = [lastError EXCEPT ![t] = IF r.failed THEN r.err ELSE @]
           /\ trace' = [trace EXCEPT ![t] =
                  Append(@, PrimitiveEvent(a, r))]
           /\ IF r.ret = 0
              THEN /\ pc' = [pc EXCEPT ![t] = "fill_throw"]
                   /\ UNCHANGED outcome
              ELSE /\ pc' = [pc EXCEPT ![t] = "done"]
                   /\ outcome' = [outcome EXCEPT ![t] = Returned("wstring", r.out)]
    /\ UNCHANGED <<op, utf8, viewLength, utf16Length, utf8Length, mutated, input, origin>>
    /\ Statement(t)

\* The exception of a failed fill pass.
Utf16FromUtf8_FillException(errorCode) ==
    UnicodeConversionException(errorCode, "ConversionFromUtf8ToUtf16",
        "Can't convert from UTF-8 to UTF-16 string (MultiByteToWideChar failed).")

\* const DWORD errorCode = ::GetLastError(); throw UnicodeConversionException(...);
Utf16FromUtf8_FillThrow(t) ==
    /\ op[t] = "Utf16FromUtf8"
    /\ pc[t] = "fill_throw"
    /\ outcome' = [outcome EXCEPT ![t] = Utf16FromUtf8_FillException(lastError[t])]
    /\ pc' = [pc EXCEPT ![t] = "done"]
    /\ UNCHANGED <<op, utf16, utf8, viewLength, utf16Length, utf8Length, result,
                   lastError, trace, mutated, input, origin>>
    /\ Statement(t)

Utf16FromUtf8_Step(t) ==
    \/ pc[t] = "idle" /\ \E view \in Views8 : Call_Utf16FromUtf8(t, view)
    \/ Chain_Utf16FromUtf8(t)
    \/ Utf16FromUtf8_Empty(t)
    \/ Utf16FromUtf8_Cast(t)
    \/ Utf16FromUtf8_Measure(t)
    \/ Utf16FromUtf8_MeasureThrow(t)
    \/ Utf16FromUtf8_Allocate(t)
    \/ /\ op[t] = "Utf16FromUtf8" /\ pc[t] = "fill"
       /\ \E i \in 1..Len(utf8[t]), u \in Bytes8 : Utf16FromUtf8_SourceWritten(t, i, u)
    \/ Utf16FromUtf8_Fill(t)
    \/ Utf16FromUtf8_FillThrow(t)

(***************************************************************************)
(* Specification                                                           *)
(***************************************************************************)
\* One thread calls the functions one after the other.
Next ==
    \E t \in SeqThreads :
        \/ pc[t] = "idle" /\ \E s \in SampleLengths : Call_SafeIntFromSizet(t, s)
        \/ Utf8FromUtf16_Step(t)
        \/ Utf16FromUtf8_Step(t)

Spec == Init /\ [][Next]_vars

(***************************************************************************)
(* Concurrent callers                                                      *)
(*                                                                         *)
(* Every thread of Threads calls one of the two functions, and the         *)
(* statements of the calls interleave in every order.  The functions keep  *)
(* no static or global data: each call has its own parameters and locals,  *)
(* and the last-error code is the calling thread's own.                    *)
(***************************************************************************)
MaxLenConcurrent == 2

UnitsConcurrent16 == {\H43, \HD85A, \HDF66}
BytesConcurrent8 == {\H43, \HC2, \HA6}

ViewsConcurrent16 ==
    {[data |-> s, length |-> SizetOfInt(Len(s))] :
        s \in SeqsUpTo(UnitsConcurrent16, MaxLenConcurrent)}
    \cup {[data |-> <<\H43>>, length |-> <<0, 32768, 0, 0>>]}

ViewsConcurrent8 ==
    {[data |-> s, length |-> SizetOfInt(Len(s))] :
        s \in SeqsUpTo(BytesConcurrent8, MaxLenConcurrent)}
    \cup {[data |-> <<\H43>>, length |-> <<0, 32768, 0, 0>>]}

Utf8FromUtf16_Concurrent(t) ==
    \/ pc[t] = "idle" /\ \E view \in ViewsConcurrent16 : Call_Utf8FromUtf16(t, view)
    \/ Utf8FromUtf16_Empty(t)
    \/ Utf8FromUtf16_Cast(t)
    \/ Utf8FromUtf16_Measure(t)
    \/ Utf8FromUtf16_MeasureThrow(t)
    \/ Utf8FromUtf16_Allocate(t)
    \/ /\ op[t] = "Utf8FromUtf16" /\ pc[t] = "fill"
       /\ \E i \in 1..Len(utf16[t]), u \in UnitsConcurrent16 :
              Utf8FromUtf16_SourceWritten(t, i, u)
    \/ Utf8FromUtf16_Fill(t)
    \/ Utf8FromUtf16_FillThrow(t)

Utf16FromUtf8_Concurrent(t) ==
    \/ pc[t] = "idle" /\ \E view \in ViewsConcurrent8 : Call_Utf16FromUtf8(t, view)
    \/ Utf16FromUtf8_Empty(t)
    \/ Utf16FromUtf8_Cast(t)
    \/ Utf16FromUtf8_Measure(t)
    \/ Utf16FromUtf8_MeasureThrow(t)
    \/ Utf16FromUtf8_Allocate(t)
    \/ /\ op[t] = "Utf16FromUtf8" /\ pc[t] = "fill"
       /\ \E i \in 1..Len(utf8[t]), u \in BytesConcurrent8 :
              Utf16FromUtf8_SourceWritten(t, i, u)
    \/ Utf16FromUtf8_Fill(t)
    \/ Utf16FromUtf8_FillThrow(t)

\* No thread has made a call yet, and none has a last-error code set.
InitConcurrent ==
    /\ Init
    /\ lastError = [t \in Threads |-> 0]

\* Any thread executes its next statement.
NextConcurrent ==
    \E t \in Threads :
        \/ Utf8FromUtf16_Concurrent(t)
        \/ Utf16FromUtf8_Concurrent(t)

SpecConcurrent == InitConcurrent /\ [][NextConcurrent]_vars

(***************************************************************************)
(* A source buffer rewritten between the passes                            *)
(*                                                                         *)
(* One thread calls the functions on views of buffers it does not own.     *)
(* Between the measuring pass and the fill pass the owner may store new    *)
(* units over the whole buffer; the view keeps its length.                 *)
(***************************************************************************)
MaxLenRewritten == 2

ViewsRewritten16 ==
    {[data |-> s, length |-> SizetOfInt(Len(s))] : s \in SeqsUpTo(Units16, MaxLenRewritten)}

ViewsRewritten8 ==
    {[data |-> s, length |-> SizetOfInt(Len(s))] : s \in SeqsUpTo(Bytes8, MaxLenRewritten)}

Utf8FromUtf16_SourceRewritten(t, s) ==
    /\ op[t] = "Utf8FromUtf16"
    /\ pc[t] = "fill"
    /\ ~mutated[t]
    /\ Len(s) = Len(utf16[t])
    /\ s # utf16[t]
    /\ utf16' = [utf16 EXCEPT ![t] = s]
    /\ mutated' = [mutated EXCEPT ![t] = TRUE]
    /\ UNCHANGED <<op, pc, utf8, viewLength, utf16Length, utf8Length, result,
                   lastError, outcome, trace, input, origin, interleaved>>

Utf16FromUtf8_SourceRewritten(t, s) ==
    /\ op[t] = "Utf16FromUtf8"
    /\ pc[t] = "fill"
    /\ ~mutated[t]
    /\ Len(s) = Len(utf8[t])
    /\ s # utf8[t]
    /\ utf8' = [utf8 EXCEPT ![t] = s]
    /\ mutated' = [mutated EXCEPT ![t] = TRUE]
    /\ UNCHANGED <<op, pc, utf16, viewLength, utf16Length, utf8Length, result,
                   lastError, outcome, trace, input, origin, interleaved>>

Utf8FromUtf16_Rewritten(t) ==
    \/ pc[t] = "idle" /\ \E view \in ViewsRewritten16 : Call_Utf8FromUtf16(t, view)
    \/ Utf8FromUtf16_Empty(t)
    \/ Utf8FromUtf16_Cast(t)
    \/ Utf8FromUtf16_Measure(t)
    \/ Utf8FromUtf16_MeasureThrow(t)
    \/ Utf8FromUtf16_Allocate(t)
    \/ /\ op[t] = "Utf8FromUtf16" /\ pc[t] = "fill"
       /\ \E s \in SeqsUpTo(Units16, MaxLenRewritten) : Utf8FromUtf16_SourceRewritten(t, s)
    \/ Utf8FromUtf16_Fill(t)
    \/ Utf8FromUtf16_FillThrow(t)

Utf16FromUtf8_Rewritten(t) ==
    \/ pc[t] = "idle" /\ \E view \in ViewsRewritten8 : Call_Utf16FromUtf8(t, view)
    \/ Utf16FromUtf8_Empty(t)
    \/ Utf16FromUtf8_Cast(t)
    \/ Utf16FromUtf8_Measure(t)
    \/ Utf16FromUtf8_MeasureThrow(t)
    \/ Utf16FromUtf8_Allocate(t)
    \/ /\ op[t] = "Utf16FromUtf8" /\ pc[t] = "fill"
       /\ \E s \in SeqsUpTo(Bytes8, MaxLenRewritten) : Utf16FromUtf8_SourceRewritten(t, s)
    \/ Utf16FromUtf8_Fill(t)
    \/ Utf16FromUtf8_FillThrow(t)

NextRewritten ==
    \E t \in SeqThreads :
        \/ Utf8FromUtf16_Rewritten(t)
        \/ Utf16FromUtf8_Rewritten(t)

SpecRewritten == Init /\ [][NextRewritten]_vars

(***************************************************************************)
(* Properties                                                              *)
(*                                                                         *)
(* The predicates below describe inputs in their own terms (positions of   *)
(* surrogates, the byte ranges of well-formed UTF-8), not by running the   *)
(* primitives' transcoding.  For a view longer than INT_MAX, input[t] is   *)
(* the one unit the view repeats, and a predicate on that unit is a        *)
(* predicate on the whole view.  A call whose source was written between   *)
(* the passes (mutated) broke the caller's obligation not to mutate the    *)
(* source during the call; properties of the value returned are about the  *)
(* calls that kept it.                                                     *)
(***************************************************************************)
Finished(t, name) == op[t] = name /\ pc[t] = "done"

\* n > INT_MAX, read off the limbs of n: a bit at or above bit 31 is set.
ExceedsIntMax(n) == n[4] > 0 \/ n[3] > 0 \/ n[2] > 32767

\* Some surrogate of s is not half of an adjacent high-low pair.
HasUnpairedSurrogate(s) ==
    \E i \in 1..Len(s) :
        \/ IsHighSurrogate(s[i]) /\ (i = Len(s) \/ ~IsLowSurrogate(s[i + 1]))
        \/ IsLowSurrogate(s[i]) /\ (i = 1 \/ ~IsHighSurrogate(s[i - 1]))

InRange(b, lo, hi) == b >= lo /\ b <= hi

\* Whether s[i..i+n-1] is one well-formed UTF-8 byte sequence (the byte
\* ranges of the Unicode Standard, table 3-7).
WellFormedSequence(s, i, n) ==
    IF n = 1 THEN InRange(s[i], \H00, \H7F)
    ELSE IF n = 2 THEN InRange(s[i], \HC2, \HDF) /\ InRange(s[i + 1], \H80, \HBF)
    ELSE IF n = 3 THEN
        /\ InRange(s[i + 2], \H80, \HBF)
        /\ \/ s[i] = \HE0 /\ InRange(s[i + 1], \HA0, \HBF)
           \/ InRange(s[i], \HE1, \HEC) /\ InRange(s[i + 1], \H80, \HBF)
           \/ s[i] = \HED /\ InRange(s[i + 1], \H80, \H9F)
           \/ InRange(s[i], \HEE, \HEF) /\ InRange(s[i + 1], \H80, \HBF)
    ELSE
        /\ InRange(s[i + 2], \H80, \HBF)
        /\ InRange(s[i + 3], \H80, \HBF)
        /\ \/ s[i] = \HF0 /\ InRange(s[i + 1], \H90, \HBF)
           \/ InRange(s[i], \HF1, \HF3) /\ InRange(s[i + 1], \H80, \HBF)
           \/ s[i] = \HF4 /\ InRange(s[i + 1], \H80, \H8F)

RECURSIVE WellFormedFrom(_, _)
WellFormedFrom(s, i) ==
    \/ i > Len(s)
    \/ \E n \in 1..4 :
        /\ i + n - 1 <= Len(s)
        /\ WellFormedSequence(s, i, n)
        /\ WellFormedFrom(s, i + n)

WellFormedUtf8(s) == WellFormedFrom(s, 1)

\* The number of bytes of the UTF-8 form of the valid UTF-16 sequence s:
\* 1, 2 or 3 for a unit below 0x80, below 0x800, or above, and 2 for each
\* half of a surrogate pair.
RECURSIVE Utf8LengthOf(_)
Utf8LengthOf(s) ==
    IF s = <<>> THEN 0
    ELSE Utf8LengthOf(Tail(s))
         + (IF Head(s) < \H80 THEN 1
            ELSE IF Head(s) < \H800 \/ IsSurrogate(Head(s)) THEN 2 ELSE 3)

IsAscii(s) == \A i \in 1..Len(s) : s[i] < \H80

MeasureMessages ==
    {"Can't get result UTF-8 string length (WideCharToMultiByte failed).",
     "Can't get result UTF-16 string length (MultiByteToWideChar failed)."}

FillMessages ==
    {"Can't convert from UTF-16 to UTF-8 string (WideCharToMultiByte failed).",
     "Can't convert from UTF-8 to UTF-16 string (MultiByteToWideChar failed)."}

Conversions == {"Utf8FromUtf16", "Utf16FromUtf8"}

ResultKind(name) == IF name = "Utf8FromUtf16" THEN "string" ELSE "wstring"

ConversionTypeOf(name) ==
    IF name = "Utf8FromUtf16" THEN "ConversionFromUtf16ToUtf8"
    ELSE "ConversionFromUtf8ToUtf16"

StrictFlagOf(name) ==
    IF name = "Utf8FromUtf16" THEN "WC_ERR_INVALID_CHARS" ELSE "MB_ERR_INVALID_CHARS"

\* The events of one kind in a trace.
EventsOf(tr, kind) == {i \in 1..Len(tr) : tr[i].event = kind}

\* The call of thread t is the second half of a round trip: its input is
\* what Utf8FromUtf16 returned for origin[t].input, and neither call's
\* source was written during the call.
RoundTripOf(t) ==
    /\ Finished(t, "Utf16FromUtf8")
    /\ origin[t].set
    /\ origin[t].op = "Utf8FromUtf16"
    /\ ~origin[t].mutated
    /\ ~mutated[t]

----------------------------------------------------------------------------
\* C1, as stated: every UTF-16 sequence without an unpaired surrogate is
\* converted by Utf8FromUtf16, and Utf16FromUtf8 of the result succeeds and
\* returns the sequence.
C1_RoundTrip_AnyLength ==
    \A t \in Threads :
        /\ (Finished(t, "Utf8FromUtf16") /\ ~mutated[t] /\ ~HasUnpairedSurrogate(input[t]))
              => outcome[t].kind = "string"
        /\ (RoundTripOf(t) /\ ~HasUnpairedSurrogate(origin[t].input))
              => outcome[t] = Returned("wstring", origin[t].input)

\* C1, amended: every UTF-16 sequence without an unpaired surrogate whose
\* length, and the length of whose UTF-8 form, is at most INT_MAX is
\* converted by Utf8FromUtf16, and Utf16FromUtf8 of the result succeeds and
\* returns the sequence.
C1_RoundTrip ==
    \A t \in Threads :
        /\ (/\ Finished(t, "Utf8FromUtf16")
            /\ ~mutated[t]
            /\ ~HasUnpairedSurrogate(input[t])
            /\ ~ExceedsIntMax(viewLength[t])
            /\ Utf8LengthOf(input[t]) <= NumericLimitsIntMax)
              => /\ outcome[t].kind = "string"
                 /\ Len(outcome[t].str) = Utf8LengthOf(input[t])
        /\ (/\ RoundTripOf(t)
            /\ ~HasUnpairedSurrogate(origin[t].input)
            /\ ~ExceedsIntMax(origin[t].length))
              => outcome[t] = Returned("wstring", origin[t].input)

\* A round trip of a surrogate pair followed by U+5B66 has returned it.
C1_Witness ==
    \E t \in Threads :
        /\ RoundTripOf(t)
        /\ origin[t].input = <<\HD85A, \HDF66, \H5B66>>
        /\ input[t] = <<\HF0, \HA6, \HAD, \HA6, \HE5, \HAD, \HA6>>
        /\ outcome[t] = Returned("wstring", <<\HD85A, \HDF66, \H5B66>>)

----------------------------------------------------------------------------
\* The call of thread t failed in the measure pass: the exception is the
\* measure pass's, and nothing was allocated or filled.
FailedInMeasurePass(t) ==
    /\ outcome[t].kind = "UnicodeConversionException"
    /\ outcome[t].message \in MeasureMessages
    /\ outcome[t].str = <<>>
    /\ Len(trace[t]) = 2
    /\ trace[t][1].event = "SafeIntFromSizet"
    /\ trace[t][2].event = "primitive" /\ ~trace[t][2].dst /\ trace[t][2].ret = 0

\* No string was handed out by thread t's call, at any point of it.
NoStringReturned(t) == outcome[t].kind \notin {"string", "wstring"} /\ outcome[t].str = <<>>

\* C2, as stated: Utf8FromUtf16 of any non-empty input with an unpaired
\* surrogate fails in the measure pass with a UnicodeConversionException
\* and returns no string.
C2_StrictUtf16_AnyLength ==
    \A t \in Threads :
        (op[t] = "Utf8FromUtf16" /\ HasUnpairedSurrogate(input[t]))
            => /\ NoStringReturned(t)
               /\ pc[t] = "done" => FailedInMeasurePass(t)

\* C2, amended: Utf8FromUtf16 of a non-empty input of at most INT_MAX code
\* units with an unpaired surrogate fails in the measure pass with a
\* UnicodeConversionException, before anything is allocated, and returns no
\* string; a longer input fails too, and returns no string either.
C2_StrictUtf16 ==
    \A t \in Threads :
        (op[t] = "Utf8FromUtf16" /\ HasUnpairedSurrogate(input[t]))
            => /\ NoStringReturned(t)
               /\ utf8[t] = <<>>
               /\ (pc[t] = "done" /\ ~ExceedsIntMax(viewLength[t]))
                     => /\ FailedInMeasurePass(t)
                        /\ outcome[t].conversionType = "ConversionFromUtf16ToUtf8"
               /\ (pc[t] = "done" /\ ExceedsIntMax(viewLength[t]))
                     => outcome[t].kind = "overflow_error"

\* Utf8FromUtf16 of 'C' followed by a lone low surrogate has failed in the
\* measure pass.
C2_Witness ==
    \E t \in Threads :
        /\ Finished(t, "Utf8FromUtf16")
        /\ input[t] = <<\H43, \HDF66>>
        /\ FailedInMeasurePass(t)
        /\ outcome[t].errorCode = ERROR_NO_UNICODE_TRANSLATION

----------------------------------------------------------------------------
\* C3, as stated: Utf16FromUtf8 of any non-empty input that is not
\* well-formed UTF-8 fails with a UnicodeConversionException and returns no
\* string.
C3_StrictUtf8_AnyLength ==
    \A t \in Threads :
        (op[t] = "Utf16FromUtf8" /\ ~WellFormedUtf8(input[t]))
            => /\ NoStringReturned(t)
               /\ pc[t] = "done" => outcome[t].kind = "UnicodeConversionException"

\* C3, amended: Utf16FromUtf8 of a non-empty input of at most INT_MAX bytes
\* that is not well-formed UTF-8 fails with a UnicodeConversionException and
\* returns no string; a longer input fails too, and returns no string either.
C3_StrictUtf8 ==
    \A t \in Threads :
        (op[t] = "Utf16FromUtf8" /\ ~WellFormedUtf8(input[t]))
            => /\ NoStringReturned(t)
               /\ (pc[t] = "done" /\ ~ExceedsIntMax(viewLength[t]))
                     => /\ outcome[t].kind = "UnicodeConversionException"
                        /\ outcome[t].conversionType = "ConversionFromUtf8ToUtf16"
                        /\ EventsOf(trace[t], "allocate") = {}
               /\ (pc[t] = "done" /\ ExceedsIntMax(viewLength[t]))
                     => outcome[t].kind = "overflow_error"

\* Utf16FromUtf8 of the overlong form C1 A6 and of a lead byte with a
\* missing continuation byte (E5 AD 'C') has failed.
C3_Witness ==
    \E t \in Threads :
        /\ Finished(t, "Utf16FromUtf8")
        /\ input[t] \in {<<\HC1, \HA6>>, <<\HE5, \HAD, \H43>>}
        /\ outcome[t].kind = "UnicodeConversionException"
        /\ outcome[t].errorCode = ERROR_NO_UNICODE_TRANSLATION

----------------------------------------------------------------------------
\* C4: a conversion of an empty view returns the empty string with no cast,
\* no primitive call and no allocation, and raises nothing.
C4_EmptyIdentity ==
    \A t \in Threads :
        (op[t] \in Conversions /\ viewLength[t] = <<0, 0, 0, 0>>)
            => /\ trace[t] = <<>>
               /\ outcome[t].kind \notin {"UnicodeConversionException", "overflow_error"}
               /\ pc[t] \in {"empty", "done"}
               /\ pc[t] = "done" => outcome[t] = Returned(ResultKind(op[t]), <<>>)

\* Utf16FromUtf8 of the empty string Utf8FromUtf16 returned for the empty
\* string has returned the empty string.
C4_Witness ==
    \E t \in Threads :
        /\ Finished(t, "Utf16FromUtf8")
        /\ origin[t].set /\ origin[t].input = <<>>
        /\ input[t] = <<>>
        /\ outcome[t] = Returned("wstring", <<>>)

----------------------------------------------------------------------------
\* C5: SafeIntFromSizet(n) throws the overflow error exactly when
\* n > INT_MAX, and otherwise returns a non-negative int of the value n; the
\* same holds of the cast inside a conversion.
C5_SafeIntFromSizet ==
    \A t \in Threads :
        /\ Finished(t, "SafeIntFromSizet")
              => /\ outcome[t].kind = "overflow_error" <=> ExceedsIntMax(viewLength[t])
                 /\ ~ExceedsIntMax(viewLength[t])
                       => /\ outcome[t].kind = "int"
                          /\ outcome[t].int >= 0
                          /\ SizetOfInt(outcome[t].int) = viewLength[t]
        /\ (op[t] \in Conversions /\ pc[t] = "measure")
              => LET n == IF op[t] = "Utf8FromUtf16" THEN utf16Length[t] ELSE utf8Length[t]
                 IN  n = Len(input[t]) /\ SizetOfInt(n) = viewLength[t]

\* SafeIntFromSizet(INT_MAX) has returned INT_MAX.
C5_Witness ==
    \E t \in Threads :
        /\ Finished(t, "SafeIntFromSizet")
        /\ viewLength[t] = <<65535, 32767, 0, 0>>
        /\ outcome[t].kind = "int"
        /\ outcome[t].int = 2147483647

----------------------------------------------------------------------------
\* C6, as stated: Utf8FromUtf16 of the unit 0x5B66 returns E5 AD A6,
\* Utf16FromUtf8 of E5 AD A6 returns the unit 0x5B66, and Utf8FromUtf16 of
\* any ASCII text returns the same units as bytes.
C6_KnownEncodings_AnyLength ==
    \A t \in Threads :
        /\ (Finished(t, "Utf8FromUtf16") /\ ~mutated[t]
               /\ input[t] = <<\H5B66>> /\ viewLength[t] = <<1, 0, 0, 0>>)
              => outcome[t] = Returned("string", <<\HE5, \HAD, \HA6>>)
        /\ (Finished(t, "Utf16FromUtf8") /\ ~mutated[t] /\ input[t] = <<\HE5, \HAD, \HA6>>)
              => outcome[t] = Returned("wstring", <<\H5B66>>)
        /\ (Finished(t, "Utf8FromUtf16") /\ ~mutated[t] /\ IsAscii(input[t]))
              => outcome[t] = Returned("string", input[t])

\* C6, amended: Utf8FromUtf16 of the unit 0x5B66 returns E5 AD A6,
\* Utf16FromUtf8 of E5 AD A6 returns the unit 0x5B66, and Utf8FromUtf16 of
\* an ASCII text of at most INT_MAX code units returns the same units as
\* bytes.
C6_KnownEncodings ==
    \A t \in Threads :
        /\ (Finished(t, "Utf8FromUtf16") /\ ~mutated[t]
               /\ input[t] = <<\H5B66>> /\ viewLength[t] = <<1, 0, 0, 0>>)
              => outcome[t] = Returned("string", <<\HE5, \HAD, \HA6>>)
        /\ (Finished(t, "Utf16FromUtf8") /\ ~mutated[t] /\ input[t] = <<\HE5, \HAD, \HA6>>)
              => outcome[t] = Returned("wstring", <<\H5B66>>)
        /\ (Finished(t, "Utf8FromUtf16") /\ ~mutated[t] /\ IsAscii(input[t])
               /\ ~ExceedsIntMax(viewLength[t]))
              => outcome[t] = Returned("string", input[t])

\* Utf8FromUtf16 of 0x5B66 has returned E5 AD A6, its result has been
\* passed to Utf16FromUtf8, and that has returned 0x5B66.
C6_Witness ==
    \E t \in Threads :
        /\ RoundTripOf(t)
        /\ origin[t].input = <<\H5B66>>
        /\ input[t] = <<\HE5, \HAD, \HA6>>
        /\ outcome[t] = Returned("wstring", <<\H5B66>>)

----------------------------------------------------------------------------
\* out is the whole conversion of in and nothing else: converting out back
\* the other way gives in.
CompleteConversion(name, in, out) ==
    IF name = "Utf8FromUtf16"
    THEN DecodeFrom(out, 1, TRUE) = [ok |-> TRUE, out |-> in]
    ELSE EncodeFrom(out, 1, TRUE) = [ok |-> TRUE, out |-> in]

----------------------------------------------------------------------------
\* C8: a UnicodeConversionException carries the direction of the function
\* that threw it, in the measure pass and in the fill pass alike, and its
\* error code is the last-error code the failing primitive call set.
C8_ErrorContext ==
    \A t \in Threads :
        (op[t] \in Conversions /\ outcome[t].kind = "UnicodeConversionException")
            => LET failing == trace[t][Len(trace[t])]
               IN  /\ outcome[t].conversionType = ConversionTypeOf(op[t])
                   /\ failing.event = "primitive"
                   /\ failing.ret = 0
                   /\ failing.err # 0
                   /\ outcome[t].errorCode = failing.err
                   /\ outcome[t].message \in (IF failing.dst THEN FillMessages ELSE MeasureMessages)

\* A fill pass of Utf8FromUtf16 has failed for want of room (the source was
\* written after the measure pass), and the exception carries that code,
\* not the thread's earlier last error, and the direction UTF-16 to UTF-8.
C8_Witness ==
    \E t \in Threads :
        /\ Finished(t, "Utf8FromUtf16")
        /\ outcome[t].kind = "UnicodeConversionException"
        /\ outcome[t].message \in FillMessages
        /\ outcome[t].errorCode = ERROR_INSUFFICIENT_BUFFER
        /\ outcome[t].conversionType = "ConversionFromUtf16ToUtf8"

----------------------------------------------------------------------------
\* C9: in a call with a non-empty input the cast comes first, then the
\* measure pass (strict, no destination, capacity 0), then, only if that
\* returned non-zero, the allocation of exactly the measured size, then the
\* fill pass with the same flags, source and source length and the measured
\* size as capacity; the primitive is called at most twice.
C9_TwoPassOrder ==
    \A t \in Threads :
        (op[t] \in Conversions /\ viewLength[t] # <<0, 0, 0, 0>>)
            => LET tr == trace[t]
               IN  /\ Len(tr) <= 4
                   /\ Cardinality(EventsOf(tr, "primitive")) <= 2
                   /\ Len(tr) >= 1 => tr[1].event = "SafeIntFromSizet"
                   /\ Len(tr) >= 2
                         => /\ tr[2].event = "primitive"
                            /\ ~tr[2].dst
                            /\ tr[2].capacity = 0
                            /\ tr[2].flags = {StrictFlagOf(op[t])}
                            /\ SizetOfInt(tr[2].cch) = viewLength[t]
                   /\ Len(tr) >= 3
                         => /\ tr[2].ret # 0
                            /\ tr[3].event = "allocate"
                            /\ tr[3].capacity = tr[2].ret
                   /\ Len(tr) = 3
                         => Len(IF op[t] = "Utf8FromUtf16" THEN utf8[t] ELSE utf16[t]) = tr[2].ret
                   /\ Len(tr) = 4
                         => /\ tr[4].event = "primitive"
                            /\ tr[4].dst
                            /\ tr[4].capacity = tr[2].ret
                            /\ tr[4].flags = tr[2].flags
                            /\ tr[4].source = tr[2].source
                            /\ tr[4].cch = tr[2].cch
                   /\ (pc[t] = "done" /\ Len(tr) = 2) => tr[2].ret = 0

\* Utf8FromUtf16 of U+5B66 has measured 3, allocated 3 and filled 3.
C9_Witness ==
    \E t \in Threads :
        /\ Finished(t, "Utf8FromUtf16")
        /\ input[t] = <<\H5B66>>
        /\ Len(trace[t]) = 4
        /\ trace[t][2].ret = 3
        /\ trace[t][3].capacity = 3
        /\ trace[t][4].ret = 3

----------------------------------------------------------------------------
\* C10: a conversion of a view longer than INT_MAX ends with the overflow
\* error of SafeIntFromSizet, which is no UnicodeConversionException, and
\* calls no primitive and allocates nothing.
C10_LengthOverflow ==
    \A t \in Threads :
        (op[t] \in Conversions /\ ExceedsIntMax(viewLength[t]))
            => /\ EventsOf(trace[t], "primitive") = {}
               /\ EventsOf(trace[t], "allocate") = {}
               /\ pc[t] \in {"empty", "cast", "done"}
               /\ pc[t] = "done"
                     => /\ outcome[t] = OverflowError
                        /\ outcome[t].kind # "UnicodeConversionException"
                        /\ trace[t] = <<CastEvent>>

\* Utf16FromUtf8 of a view of INT_MAX + 1 bytes has ended with the overflow
\* error.
C10_Witness ==
    \E t \in Threads :
        /\ Finished(t, "Utf16FromUtf8")
        /\ viewLength[t] = <<0, 32768, 0, 0>>
        /\ outcome[t].kind = "overflow_error"
        /\ trace[t] = <<CastEvent>>

----------------------------------------------------------------------------
\* What a call of the function `name` on a view of `length` units showing
\* `data` ends with when its statements run one after the other with nothing
\* in between: the empty check, the cast, the measuring pass, the allocation
\* and the fill pass, each on what the one before left.
OutcomeAlone(name, data, length) ==
    IF Empty(length) THEN Returned(ResultKind(name), <<>>)
    ELSE IF SafeIntFromSizet(length).threw THEN OverflowError
    ELSE LET cch == SafeIntFromSizet(length).value
         IN  IF name = "Utf8FromUtf16"
             THEN LET measured == WideCharToMultiByte(Utf8FromUtf16_kFlags, data, cch, <<>>, 0)
                      filled == WideCharToMultiByte(Utf8FromUtf16_kFlags, data, cch,
                                    NewString(measured.ret), measured.ret)
                  IN  IF measured.ret = 0 THEN Utf8FromUtf16_MeasureException(measured.err)
                      ELSE IF filled.ret = 0 THEN Utf8FromUtf16_FillException(filled.err)
                      ELSE Returned("string", filled.out)
             ELSE LET measured == MultiByteToWideChar(Utf16FromUtf8_kFlags, data, cch, <<>>, 0)
                      filled == MultiByteToWideChar(Utf16FromUtf8_kFlags, data, cch,
                                    NewString(measured.ret), measured.ret)
                  IN  IF measured.ret = 0 THEN Utf16FromUtf8_MeasureException(measured.err)
                      ELSE IF filled.ret = 0 THEN Utf16FromUtf8_FillException(filled.err)
                      ELSE Returned("wstring", filled.out)

\* C11: when calls of Utf8FromUtf16 and Utf16FromUtf8 run on different
\* threads with their statements interleaved in any order, every call whose
\* source view was not written during the call ends as it ends when it runs
\* alone: with the same returned string, or with the same exception, of the
\* same direction and error code.  A call that has not ended has no outcome.
C11_ConcurrentCallsIndependent ==
    \A t \in Threads :
        /\ (op[t] \in Conversions /\ pc[t] = "done" /\ ~mutated[t])
               => outcome[t] = OutcomeAlone(op[t], input[t], viewLength[t])
        /\ pc[t] # "done" => outcome[t] = NoOutcome

\* Two calls whose statements interleaved have both ended: Utf8FromUtf16 of a
\* surrogate pair returned its four bytes on thread 1, and Utf16FromUtf8 of a
\* lone continuation byte threw with ERROR_NO_UNICODE_TRANSLATION on thread 2,
\* whose last-error code thread 1 does not see.
C11_Witness ==
    /\ interleaved
    /\ Finished(1, "Utf8FromUtf16") /\ ~mutated[1]
    /\ input[1] = <<\HD85A, \HDF66>>
    /\ outcome[1] = Returned("string", <<\HF0, \HA6, \HAD, \HA6>>)
    /\ lastError[1] = 0
    /\ Finished(2, "Utf16FromUtf8") /\ ~mutated[2]
    /\ input[2] = <<\HA6>>
    /\ outcome[2].kind = "UnicodeConversionException"
    /\ outcome[2].conversionType = "ConversionFromUtf8ToUtf16"
    /\ outcome[2].errorCode = ERROR_NO_UNICODE_TRANSLATION
    /\ lastError[2] = ERROR_NO_UNICODE_TRANSLATION

----------------------------------------------------------------------------
\* C12: the count the fill pass returns is compared with zero only.  When
\* the fill pass returns a count that is neither zero nor the measured
\* length (the source was rewritten between the passes), the call raises no
\* error: it ends returning the string allocated before the fill pass, whose
\* length is the measured length and not the count the fill pass reported.
C12_FillLengthMismatchUndetected ==
    \A t \in Threads :
        (/\ op[t] \in Conversions
         /\ Len(trace[t]) = 4
         /\ trace[t][4].ret # 0
         /\ trace[t][4].ret # trace[t][2].ret)
            => /\ pc[t] = "done"
               /\ result[t] = trace[t][4].ret
               /\ outcome[t].kind = ResultKind(op[t])
               /\ Len(outcome[t].str) = trace[t][2].ret
               /\ Len(outcome[t].str) = trace[t][3].capacity
               /\ Len(outcome[t].str) # result[t]

\* Utf16FromUtf8 measured two units for the bytes 'C' 'C'; the buffer was
\* rewritten to C2 A6 before the fill pass, which returned 1; the call
\* returned a wstring of two units, U+00A6 and the L'\0' it was built with.
C12_Witness ==
    \E t \in Threads :
        /\ Finished(t, "Utf16FromUtf8")
        /\ input[t] = <<\H43, \H43>>
        /\ mutated[t]
        /\ utf8[t] = <<\HC2, \HA6>>
        /\ trace[t][2].ret = 2
        /\ trace[t][4].ret = 1
        /\ result[t] = 1
        /\ outcome[t] = Returned("wstring", <<\HA6, 0>>)

=============================================================================
